---- MODULE Spec2Model ----
(***************************************************************************)
(* OneClickSimulator (src/unnamed/part_002): the quote engine, the swap    *)
(* registry and the execution orchestrator of the NEAR Intents simulator.  *)
(*                                                                         *)
(* Representation of JavaScript values                                     *)
(*  - an object is a record; an absent property is a key that is not in    *)
(*    the record's DOMAIN (request.dry omitted, swap.error never set);     *)
(*  - an asset string is the sequence of its ":" separators and of its     *)
(*    maximal colon-free pieces: "near:native" is <<"near",":","native">>, *)
(*    "" is <<>>;                                                          *)
(*  - an amount string is the sequence of its characters, over the         *)
(*    alphabet digits, sign, blank and letters other than e/E/I (no ".",   *)
(*    no exponent, no "Infinity"): "-5" is <<"-","5">>;                    *)
(*  - account names, hashes and error messages are atomic strings;         *)
(*  - a double is modelled as an exact decimal (NaN apart);                *)
(*  - time is counted in units of 100 ms.                                  *)
(***************************************************************************)
EXTENDS Integers, Sequences, FiniteSets, TLC

VARIABLES
  swaps,          \* this.swaps: quoteId -> StoredSwap
  tasks,          \* per quoteId: the setTimeout'd simulateExecution and where it stands
  derivations,    \* per requestQuote call that awaited crossChain.deriveAddress:
                  \* the request, the arguments and the outcome ("pending"
                  \* while requestQuote is suspended at the await)
  nearExec,       \* whether opts.nearExec was given to the constructor
  client,         \* the class of the client in use
  env,            \* process.env.USE_PRODUCTION_SIMULATORS when the client was made
  now,            \* Date.now(), in units of 100 ms
  nCalls,         \* number of requestQuote calls made so far
  lastCall        \* outcome of the last facade call that settled

vars ==
  <<swaps, tasks, derivations, nearExec, client, env, now, nCalls, lastCall>>

----------------------------------------------------------------------------
(* Bounds *)

MaxCalls == 2

(* Program constants *)

ScheduleDelay == 10
TimeEstimateCross == 45
TimeEstimateSame == 7
DeadlineDelay == 3000
DefaultDecimals == 18
FeePermille == 3
DefaultSlippagePermille == 10

Undefined == "<undefined>"
NoError == "<none>"

----------------------------------------------------------------------------
(* JavaScript helpers *)

Has(obj, key) == key \in DOMAIN obj

\* !obj[key] for a property holding an atomic string
FalsyStr(obj, key) == ~Has(obj, key) \/ obj[key] = ""

\* !obj[key] for a property holding a string kept as a sequence
FalsySeq(obj, key) == ~Has(obj, key) \/ obj[key] = <<>>

\* String.prototype.split(':')
RECURSIVE Split(_)
Split(s) ==
  IF s = <<>> THEN <<"">>
  ELSE IF Head(s) = ":" THEN <<"">> \o Split(Tail(s))
  ELSE IF Len(s) = 1 THEN <<Head(s)>>
  ELSE <<Head(s)>> \o Split(Tail(Tail(s)))

\* parts[i] of an array: undefined past its end
Part(parts, i) == IF i <= Len(parts) THEN parts[i] ELSE Undefined

\* String.prototype.startsWith('near:')
StartsWithNearColon(s) == Len(s) >= 2 /\ s[1] = "near" /\ s[2] = ":"

Digits == {"0", "1", "2", "3", "4", "5", "6", "7", "8", "9"}

DigitVal(c) ==
  CASE c = "0" -> 0 [] c = "1" -> 1 [] c = "2" -> 2 [] c = "3" -> 3
    [] c = "4" -> 4 [] c = "5" -> 5 [] c = "6" -> 6 [] c = "7" -> 7
    [] c = "8" -> 8 [] c = "9" -> 9

RECURSIVE SkipBlanks(_)
SkipBlanks(s) == IF s # <<>> /\ Head(s) = " " THEN SkipBlanks(Tail(s)) ELSE s

RECURSIVE DigitPrefixLen(_)
DigitPrefixLen(s) ==
  IF s # <<>> /\ Head(s) \in Digits THEN 1 + DigitPrefixLen(Tail(s)) ELSE 0

\* the value of the first n characters of a run of digits
RECURSIVE DigitsValueTo(_, _)
DigitsValueTo(s, n) ==
  IF n = 0 THEN 0 ELSE 10 * DigitsValueTo(s, n - 1) + DigitVal(s[n])

DigitsValue(s) == DigitsValueTo(s, Len(s))

NaN == [nan |-> TRUE]

\* parseFloat on the amount alphabet: blanks, a sign, the longest run of digits
ParseFloat(s) ==
  LET t == SkipBlanks(s)
      neg == t # <<>> /\ Head(t) = "-"
      u == IF t # <<>> /\ Head(t) \in {"+", "-"} THEN Tail(t) ELSE t
      n == DigitPrefixLen(u)
  IN IF n = 0 THEN NaN
     ELSE [nan |-> FALSE,
           val |-> (IF neg THEN -1 ELSE 1) * DigitsValue(SubSeq(u, 1, n))]

\* x <= 0 on doubles: false for NaN
LeqZero(x) == ~x.nan /\ x.val <= 0

----------------------------------------------------------------------------
(* validateQuoteRequest: the message of the Error it throws, or NoError *)

\* faulty variant: the amount is checked before the assets
ValidateAmountFirst(request) ==
  IF FalsySeq(request, "amount") \/ LeqZero(ParseFloat(request.amount))
  THEN "Valid amount required"
  ELSE IF FalsySeq(request, "originAsset") \/ FalsySeq(request, "destinationAsset")
  THEN "Origin and destination assets required"
  ELSE IF FalsyStr(request, "refundTo") \/ FalsyStr(request, "recipient")
  THEN "Refund and recipient addresses required"
  ELSE NoError

ValidateQuoteRequest(request) ==
  IF FalsySeq(request, "originAsset") \/ FalsySeq(request, "destinationAsset")
  THEN "Origin and destination assets required"
  ELSE IF FalsySeq(request, "amount") \/ LeqZero(ParseFloat(request.amount))
  THEN "Valid amount required"
  ELSE IF FalsyStr(request, "refundTo") \/ FalsyStr(request, "recipient")
  THEN "Refund and recipient addresses required"
  ELSE NoError

----------------------------------------------------------------------------
(* Doubles as exact decimals: [nan |-> FALSE, m |-> mantissa, e |-> decimals] *)
(* stands for m / 10^e.                                                       *)

RECURSIVE Pow10(_)
Pow10(k) == IF k = 0 THEN 1 ELSE 10 * Pow10(k - 1)

Dec(m, e) == [nan |-> FALSE, m |-> m, e |-> e]

FromInt(x) == IF x.nan THEN NaN ELSE Dec(x.val, 0)

Mul(x, y) == IF x.nan \/ y.nan THEN NaN ELSE Dec(x.m * y.m, x.e + y.e)

\* 1 - x
OneMinus(x) == IF x.nan THEN NaN ELSE Dec(Pow10(x.e) - x.m, x.e)

\* m / 10^e without trailing zeros in the fraction
RECURSIVE StripZeros(_, _)
StripZeros(m, e) ==
  IF e > 0 /\ m % 10 = 0 THEN StripZeros(m \div 10, e - 1) ELSE Dec(m, e)

Normalize(x) == StripZeros(x.m, x.e)

\* Number.prototype.toFixed(digits) of a non-negative number: the string
\* <int>.<frac, fracLen digits><digits - fracLen zeros>, or "NaN"
ToFixed(x, digits) ==
  IF x.nan THEN [text |-> "NaN"]
  ELSE LET n == Normalize(x)
           r == IF n.e <= digits THEN n
                ELSE Normalize(Dec((n.m + Pow10(n.e - digits) \div 2)
                                     \div Pow10(n.e - digits), digits))
       IN [int |-> r.m \div Pow10(r.e), frac |-> r.m % Pow10(r.e),
           fracLen |-> r.e, digits |-> digits]

----------------------------------------------------------------------------
(* Asset registry: getDecimals and getSymbol.  The key `${chain}:${token}` *)
(* is kept as the pair <<chain, token>>.                                   *)

RegisteredAssets ==
  { <<"near", "native">>, <<"near", "wrap.near">>, <<"near", "usdc.near">>,
    <<"ethereum", "native">>, <<"ethereum", "usdc.eth">>,
    <<"bitcoin", "native">>, <<"dogecoin", "native">> }

DecimalsRegistry(key) ==
  CASE key = <<"near", "native">> -> 24
    [] key = <<"near", "wrap.near">> -> 24
    [] key = <<"near", "usdc.near">> -> 6
    [] key = <<"ethereum", "native">> -> 18
    [] key = <<"ethereum", "usdc.eth">> -> 6
    [] key = <<"bitcoin", "native">> -> 8
    [] key = <<"dogecoin", "native">> -> 8

SymbolRegistry(key) ==
  CASE key = <<"near", "native">> -> "NEAR"
    [] key = <<"near", "wrap.near">> -> "wNEAR"
    [] key = <<"near", "usdc.near">> -> "USDC"
    [] key = <<"ethereum", "native">> -> "ETH"
    [] key = <<"ethereum", "usdc.eth">> -> "USDC"
    [] key = <<"bitcoin", "native">> -> "BTC"
    [] key = <<"dogecoin", "native">> -> "DOGE"

\* faulty variant: no default, toFixed(undefined) keeping no decimals
GetDecimalsNoDefault(chain, token) ==
  IF <<chain, token>> \in RegisteredAssets
  THEN DecimalsRegistry(<<chain, token>>) ELSE 0

GetDecimals(chain, token) ==
  IF <<chain, token>> \in RegisteredAssets
  THEN DecimalsRegistry(<<chain, token>>) ELSE DefaultDecimals

GetSymbol(chain, token) ==
  IF <<chain, token>> \in RegisteredAssets
  THEN SymbolRegistry(<<chain, token>>) ELSE token

----------------------------------------------------------------------------
(* calculateQuote *)

\* Date.prototype.toISOString: the text of the instant t
ToISOString(t) == <<"ISO", t>>

OriginChain(request) == Part(Split(request.originAsset), 1)
OriginToken(request) == Part(Split(request.originAsset), 2)
DestChain(request) == Part(Split(request.destinationAsset), 1)
DestToken(request) == Part(Split(request.destinationAsset), 2)

\* faulty variant: no default, an omitted tolerance counts as 0
SlippageNoDefault(request) ==
  IF Has(request, "slippageTolerance")
  THEN Dec(request.slippageTolerance, 3)
  ELSE Dec(0, 3)

\* request.slippageTolerance || 0.01, the tolerance given in thousandths
Slippage(request) ==
  IF Has(request, "slippageTolerance") /\ request.slippageTolerance # 0
  THEN Dec(request.slippageTolerance, 3)
  ELSE Dec(DefaultSlippagePermille, 3)

IsCrossChain(request) == OriginChain(request) # DestChain(request)

\* faulty variant: the same estimate whatever the chains
TimeEstimateFlat(request) == TimeEstimateSame

TimeEstimate(request) ==
  IF IsCrossChain(request) THEN TimeEstimateCross ELSE TimeEstimateSame

\* faulty variant: one step whatever the chains
RouteStepsSingle(request) ==
  << [from |-> GetSymbol(OriginChain(request), OriginToken(request)),
      to |-> GetSymbol(DestChain(request), DestToken(request)),
      protocol |-> "ref-finance"] >>

\* faulty variant: the second step starts from another name than the one the
\* first step ended at
RouteStepsUnchained(request) ==
  LET from == GetSymbol(OriginChain(request), OriginToken(request))
      to == GetSymbol(DestChain(request), DestToken(request))
  IN IF IsCrossChain(request)
     THEN << [from |-> from, to |-> <<from, " (bridged)">>,
              protocol |-> "rainbow-bridge"],
             [from |-> <<from, " (wrapped)">>, to |-> to,
              protocol |-> "uniswap-v3"] >>
     ELSE << [from |-> from, to |-> to, protocol |-> "ref-finance"] >>

RouteSteps(request) ==
  LET from == GetSymbol(OriginChain(request), OriginToken(request))
      to == GetSymbol(DestChain(request), DestToken(request))
  IN IF IsCrossChain(request)
     THEN << [from |-> from, to |-> <<from, " (bridged)">>,
              protocol |-> "rainbow-bridge"],
             [from |-> <<from, " (bridged)">>, to |-> to,
              protocol |-> "uniswap-v3"] >>
     ELSE << [from |-> from, to |-> to, protocol |-> "ref-finance"] >>

\* faulty variant: the address is derived whatever the origin chain
NeedsDerivedAddressAlways(request) == TRUE

\* whether calculateQuote awaits crossChain.deriveAddress
NeedsDerivedAddress(request) == OriginChain(request) # "near"

\* faulty variant: the fee is taken on the amount after the fee
CalculateQuoteFeeOnOutput(request, depositAddress, clock) ==
  LET amountInNum == FromInt(ParseFloat(request.amount))
      feePercent == Dec(FeePermille, 3)
      amountOutNum == Mul(amountInNum, OneMinus(feePercent))
      amountOutWithSlippage == Mul(amountOutNum, OneMinus(Slippage(request)))
      originDecimals == GetDecimals(OriginChain(request), OriginToken(request))
      destDecimals == GetDecimals(DestChain(request), DestToken(request))
  IN [depositAddress |-> depositAddress,
      amountIn |-> request.amount,
      amountOut |-> ToFixed(amountOutWithSlippage, destDecimals),
      amountOutFormatted |->
        <<ToFixed(amountOutWithSlippage, 2), " ",
          GetSymbol(DestChain(request), DestToken(request))>>,
      deadline |-> ToISOString(clock + DeadlineDelay),
      timeEstimate |-> TimeEstimate(request),
      fee |-> ToFixed(Mul(amountOutNum, feePercent), originDecimals),
      route |-> [steps |-> RouteSteps(request)]]

\* the Quote calculateQuote returns, given the deposit address it settled on
CalculateQuote(request, depositAddress, clock) ==
  LET amountInNum == FromInt(ParseFloat(request.amount))
      feePercent == Dec(FeePermille, 3)
      amountOutNum == Mul(amountInNum, OneMinus(feePercent))
      amountOutWithSlippage == Mul(amountOutNum, OneMinus(Slippage(request)))
      originDecimals == GetDecimals(OriginChain(request), OriginToken(request))
      destDecimals == GetDecimals(DestChain(request), DestToken(request))
  IN [depositAddress |-> depositAddress,
      amountIn |-> request.amount,
      amountOut |-> ToFixed(amountOutWithSlippage, destDecimals),
      amountOutFormatted |->
        <<ToFixed(amountOutWithSlippage, 2), " ",
          GetSymbol(DestChain(request), DestToken(request))>>,
      deadline |-> ToISOString(clock + DeadlineDelay),
      timeEstimate |-> TimeEstimate(request),
      fee |-> ToFixed(Mul(amountInNum, feePercent), originDecimals),
      route |-> [steps |-> RouteSteps(request)]]

----------------------------------------------------------------------------
(* Requests the callers make *)

NearNative == <<"near", ":", "native">>
WrapNear == <<"near", ":", "wrap.near">>
NearUsdc == <<"near", ":", "usdc.near">>
EthUsdc == <<"ethereum", ":", "usdc.eth">>

Amount1000 == <<"1", "0", "0", "0">>

Req(origin, dest, amount, refundTo, recipient) ==
  [originAsset |-> origin, destinationAsset |-> dest, amount |-> amount,
   refundTo |-> refundTo, recipient |-> recipient]

With(obj, key, value) ==
  [k \in DOMAIN obj \cup {key} |-> IF k = key THEN value ELSE obj[k]]

Without(obj, key) == [k \in DOMAIN obj \ {key} |-> obj[k]]

SameChain == Req(NearNative, WrapNear, Amount1000, "alice.near", "bob.near")
CrossOut == Req(NearNative, EthUsdc, Amount1000, "alice.near", "0x1234")
CrossIn == Req(EthUsdc, NearUsdc, Amount1000, "alice.near", "bob.near")

DryRun == With(SameChain, "dry", TRUE)
BareNearDest == With(SameChain, "destinationAsset", <<"near">>)

WellFormedRequests ==
  { SameChain, CrossOut, CrossIn, DryRun,
    With(CrossOut, "dry", TRUE), With(SameChain, "dry", FALSE) }

BadAmounts == { <<"0">>, <<"-", "5">>, <<"a", "b", "c">>, <<>> }

BadAssets == { <<"invalid-format">>, <<"near">>, <<"near", ":">>,
               <<":", "native">>, <<"near", ":", "a", ":", "b">> }

StringFields == {"refundTo", "recipient"}
SeqFields == {"originAsset", "destinationAsset", "amount"}

MalformedRequests ==
  { With(SameChain, "amount", a) : a \in BadAmounts }
  \cup { With(SameChain, "originAsset", a) : a \in BadAssets }
  \cup { With(SameChain, "destinationAsset", a) : a \in BadAssets }
  \cup { Without(SameChain, f) : f \in StringFields \cup SeqFields }
  \cup { With(SameChain, f, "") : f \in StringFields }
  \cup { With(SameChain, f, <<>>) : f \in SeqFields }
  \cup { [amount |-> Amount1000], [refundTo |-> "alice.near"] }

EthNative == <<"ethereum", ":", "native">>
BtcNative == <<"bitcoin", ":", "native">>
DogeNative == <<"dogecoin", ":", "native">>
UnlistedToken == <<"near", ":", "meme.near">>

Amount5 == <<"5">>
Amount7 == <<"7">>

\* slippageTolerance in thousandths: 0, 0.005, 0.05 and 1
SlippageValues == {0, 5, 50, 1000}

\* requests that differ in tokens, amount and slippage tolerance
PricingRequests ==
  { With(SameChain, "slippageTolerance", x) : x \in SlippageValues }
  \cup { With(SameChain, "amount", Amount5),
         With(With(SameChain, "amount", Amount7), "slippageTolerance", 5),
         With(With(CrossOut, "amount", Amount5), "slippageTolerance", 50),
         Req(NearUsdc, NearNative, Amount5, "alice.near", "bob.near"),
         Req(NearNative, UnlistedToken, Amount7, "alice.near", "bob.near"),
         Req(EthNative, EthUsdc, Amount1000, "alice.near", "0x1234"),
         Req(BtcNative, EthNative, Amount7, "alice.near", "0x1234") }

\* requests over every listed asset, an unlisted one and the malformed ones
RegistryRequests ==
  WellFormedRequests \cup PricingRequests
  \cup { Req(DogeNative, BtcNative, Amount5, "alice.near", "bc1q"),
         Without(SameChain, "recipient") }
  \cup { With(SameChain, "originAsset", a) : a \in BadAssets }
  \cup { With(SameChain, "destinationAsset", a) : a \in BadAssets }

\* every request shape, for the specification of the facade alone
Requests == WellFormedRequests \cup MalformedRequests \cup PricingRequests

\* the requests of the specification of the whole lifecycle
LifecycleRequests ==
  { SameChain, CrossOut, CrossIn, DryRun, BareNearDest,
    With(SameChain, "amount", <<"0">>), Without(SameChain, "recipient") }

QuoteIds == 1 .. MaxCalls

(* What the adapters and the random generator may answer *)

DerivedAddresses == {"0xderived"}
AdapterTxHashes == {"near-tx-1"}
DestTxHashes == {"0xdest-1", "0xdest-2"}
MockHexes == {"mock-hex-a", "mock-hex-b"}
AdapterErrors == {"adapter failed"}

----------------------------------------------------------------------------
(* State *)

\* new OneClickSimulator({crossChain, nearExec}) or
\* new OneClickSimulator({crossChain})
Init ==
  /\ swaps = << >>
  /\ tasks = << >>
  /\ derivations = << >>
  /\ nearExec \in BOOLEAN
  /\ client = "OneClickSimulator"
  /\ env = Undefined
  /\ now = 0
  /\ nCalls = 0
  /\ lastCall = [op |-> "none"]

\* Map.prototype.set
MapSet(map, key, value) ==
  [k \in DOMAIN map \cup {key} |-> IF k = key THEN value ELSE map[k]]

\* assignment of properties props to the object obj
Assign(obj, props) == props @@ obj

\* faulty variant: every call draws the same identifier
RandomUUIDRepeats(call) == 1

\* crypto.randomUUID(): an identifier no earlier call drew
RandomUUID(call) == call

\* generateMockTxHash('NEAR'): the prefix '' before 64 random hexadecimal
\* digits, hex standing for the digits drawn
GenerateMockTxHash(hex) == hex

IsMockTxHash(h) == \E hex \in MockHexes : h = GenerateMockTxHash(hex)

\* faulty variant: the dry flag is not looked at
NotDryIgnored(request) == TRUE

\* !request.dry
NotDry(request) == ~(Has(request, "dry") /\ request.dry)

\* faulty variant: simulateExecution is called directly, not through a timer
StoreQuoteExecutesInline(call, request, depositAddress) ==
  LET quote == CalculateQuote(request, depositAddress, now)
      quoteId == RandomUUID(call)
      quoteResponse == [quoteId |-> quoteId, timestamp |-> ToISOString(now),
                        quoteRequest |-> request, quote |-> quote]
  IN /\ swaps' = MapSet(swaps, quoteId,
                        [quoteResponse |-> quoteResponse,
                         status |-> IF NotDry(request) THEN "PROCESSING"
                                    ELSE "PENDING_DEPOSIT",
                         createdAt |-> now, updatedAt |-> now])
     /\ tasks' = IF NotDry(request)
                 THEN MapSet(tasks, quoteId,
                             [pc |-> "delay", due |-> now + quote.timeEstimate,
                              nearTxHash |-> Undefined,
                              transferCalls |-> << >>,
                              transferResult |-> "none",
                              destTxCalls |-> << >>,
                              destTxResult |-> "none",
                              destTxHash |-> Undefined])
                 ELSE tasks
     /\ lastCall' = [op |-> "requestQuote", call |-> call, request |-> request,
                     outcome |-> "returned", quoteResponse |-> quoteResponse]

\* faulty variant: one timer for the whole simulator, a new quote's timer
\* replacing the one that was pending
StoreQuoteSingleTimer(call, request, depositAddress) ==
  LET quote == CalculateQuote(request, depositAddress, now)
      quoteId == RandomUUID(call)
      quoteResponse == [quoteId |-> quoteId, timestamp |-> ToISOString(now),
                        quoteRequest |-> request, quote |-> quote]
      kept == {q \in DOMAIN tasks : tasks[q].pc # "scheduled"}
  IN /\ swaps' = MapSet(swaps, quoteId,
                        [quoteResponse |-> quoteResponse,
                         status |-> "PENDING_DEPOSIT",
                         createdAt |-> now, updatedAt |-> now])
     /\ tasks' = IF NotDry(request)
                 THEN MapSet([q \in kept |-> tasks[q]], quoteId,
                             [pc |-> "scheduled", due |-> now + ScheduleDelay,
                              nearTxHash |-> Undefined,
                              transferCalls |-> << >>,
                              transferResult |-> "none",
                              destTxCalls |-> << >>,
                              destTxResult |-> "none",
                              destTxHash |-> Undefined])
                 ELSE tasks
     /\ lastCall' = [op |-> "requestQuote", call |-> call, request |-> request,
                     outcome |-> "returned", quoteResponse |-> quoteResponse]

\* faulty variant: the registry keeps the latest record only
StoreQuoteEvicts(call, request, depositAddress) ==
  LET quote == CalculateQuote(request, depositAddress, now)
      quoteId == RandomUUID(call)
      quoteResponse == [quoteId |-> quoteId, timestamp |-> ToISOString(now),
                        quoteRequest |-> request, quote |-> quote]
  IN /\ swaps' = MapSet(<< >>, quoteId,
                        [quoteResponse |-> quoteResponse,
                         status |-> "PENDING_DEPOSIT",
                         createdAt |-> now, updatedAt |-> now])
     /\ tasks' = IF NotDry(request)
                 THEN MapSet(tasks, quoteId,
                             [pc |-> "scheduled", due |-> now + ScheduleDelay,
                              nearTxHash |-> Undefined,
                              transferCalls |-> << >>,
                              transferResult |-> "none",
                              destTxCalls |-> << >>,
                              destTxResult |-> "none",
                              destTxHash |-> Undefined])
                 ELSE tasks
     /\ lastCall' = [op |-> "requestQuote", call |-> call, request |-> request,
                     outcome |-> "returned", quoteResponse |-> quoteResponse]

\* requestQuote from the quote on: build the response, store the swap,
\* schedule the execution, return
StoreQuote(call, request, depositAddress) ==
  LET quote == CalculateQuote(request, depositAddress, now)
      quoteId == RandomUUID(call)
      quoteResponse == [quoteId |-> quoteId, timestamp |-> ToISOString(now),
                        quoteRequest |-> request, quote |-> quote]
  IN /\ swaps' = MapSet(swaps, quoteId,
                        [quoteResponse |-> quoteResponse,
                         status |-> "PENDING_DEPOSIT",
                         createdAt |-> now, updatedAt |-> now])
     /\ tasks' = IF NotDry(request)
                 THEN MapSet(tasks, quoteId,
                             [pc |-> "scheduled", due |-> now + ScheduleDelay,
                              nearTxHash |-> Undefined,
                              transferCalls |-> << >>,
                              transferResult |-> "none",
                              destTxCalls |-> << >>,
                              destTxResult |-> "none",
                              destTxHash |-> Undefined])
                 ELSE tasks
     /\ lastCall' = [op |-> "requestQuote", call |-> call, request |-> request,
                     outcome |-> "returned", quoteResponse |-> quoteResponse]

\* faulty variant: the swap is stored before the request is validated
RequestQuoteStoresFirst(request) ==
  /\ nCalls < MaxCalls
  /\ nCalls' = nCalls + 1
  /\ LET call == nCalls + 1
         err == ValidateQuoteRequest(request)
     IN IF err # NoError
        THEN /\ swaps' = MapSet(swaps, RandomUUID(call),
                                [quoteResponse |->
                                   [quoteId |-> RandomUUID(call),
                                    timestamp |-> ToISOString(now),
                                    quoteRequest |-> request],
                                 status |-> "PENDING_DEPOSIT",
                                 createdAt |-> now, updatedAt |-> now])
             /\ lastCall' = [op |-> "requestQuote", call |-> call,
                             request |-> request, outcome |-> "rejected",
                             error |-> err]
             /\ UNCHANGED <<tasks, derivations>>
        ELSE IF NeedsDerivedAddress(request)
        THEN /\ derivations' = MapSet(derivations, call,
                                      [request |-> request,
                                       nearAccount |-> request.refundTo,
                                       chain |-> OriginChain(request),
                                       result |-> "pending"])
             /\ UNCHANGED <<swaps, tasks, lastCall>>
        ELSE /\ StoreQuote(call, request, request.refundTo)
             /\ UNCHANGED derivations
  /\ UNCHANGED <<nearExec, client, env, now>>

\* requestQuote up to its first suspension
RequestQuote(request) ==
  /\ nCalls < MaxCalls
  /\ nCalls' = nCalls + 1
  /\ LET call == nCalls + 1
         err == ValidateQuoteRequest(request)
     IN IF err # NoError
        THEN /\ lastCall' = [op |-> "requestQuote", call |-> call,
                             request |-> request, outcome |-> "rejected",
                             error |-> err]
             /\ UNCHANGED <<swaps, tasks, derivations>>
        ELSE IF NeedsDerivedAddress(request)
        THEN /\ derivations' = MapSet(derivations, call,
                                      [request |-> request,
                                       nearAccount |-> request.refundTo,
                                       chain |-> OriginChain(request),
                                       result |-> "pending"])
             /\ UNCHANGED <<swaps, tasks, lastCall>>
        ELSE /\ StoreQuote(call, request, request.refundTo)
             /\ UNCHANGED derivations
  /\ UNCHANGED <<nearExec, client, env, now>>

Suspended(call) ==
  call \in DOMAIN derivations /\ derivations[call].result = "pending"

\* crossChain.deriveAddress resolves: calculateQuote and requestQuote go on
DeriveAddressReturns(call, address) ==
  /\ Suspended(call)
  /\ derivations' = [derivations EXCEPT
                       ![call] = Assign(@, [result |-> "returned",
                                            address |-> address])]
  /\ StoreQuote(call, derivations[call].request, address)
  /\ UNCHANGED <<nearExec, client, env, now, nCalls>>

\* faulty variant: a failed derivation falls back to refundTo as the address
DeriveAddressFailsFallsBack(call, message) ==
  /\ Suspended(call)
  /\ derivations' = [derivations EXCEPT
                       ![call] = Assign(@, [result |-> "failed",
                                            error |-> message])]
  /\ StoreQuote(call, derivations[call].request,
                derivations[call].request.refundTo)
  /\ UNCHANGED <<nearExec, client, env, now, nCalls>>

\* crossChain.deriveAddress rejects: requestQuote rejects with the same error
DeriveAddressFails(call, message) ==
  /\ Suspended(call)
  /\ derivations' = [derivations EXCEPT
                       ![call] = Assign(@, [result |-> "failed",
                                            error |-> message])]
  /\ lastCall' = [op |-> "requestQuote", call |-> call,
                  request |-> derivations[call].request,
                  outcome |-> "rejected", error |-> message]
  /\ UNCHANGED <<swaps, tasks, nearExec, client, env, now, nCalls>>

\* faulty variant: an unknown quoteId gets an empty pending record
GetSwapStatusCreates(quoteId) ==
  /\ swaps' = IF quoteId \in DOMAIN swaps THEN swaps
              ELSE MapSet(swaps, quoteId,
                          [status |-> "PENDING_DEPOSIT",
                           createdAt |-> now, updatedAt |-> now])
  /\ lastCall' = [op |-> "getSwapStatus", quoteId |-> quoteId,
                  outcome |-> "returned",
                  response |-> [status |-> swaps'[quoteId].status,
                                updatedAt |->
                                  ToISOString(swaps'[quoteId].updatedAt)]]
  /\ UNCHANGED <<tasks, derivations, nearExec, client, env, now, nCalls>>

\* faulty variant: a read stamps the record's updatedAt
GetSwapStatusTouches(quoteId) ==
  /\ swaps' = IF quoteId \in DOMAIN swaps
              THEN [swaps EXCEPT ![quoteId] = Assign(@, [updatedAt |-> now])]
              ELSE swaps
  /\ lastCall' =
       IF quoteId \notin DOMAIN swaps
       THEN [op |-> "getSwapStatus", quoteId |-> quoteId, outcome |-> "rejected",
             error |-> <<"Quote not found: ", quoteId>>]
       ELSE LET swap == swaps'[quoteId]
            IN [op |-> "getSwapStatus", quoteId |-> quoteId,
                outcome |-> "returned",
                response |->
                  [k \in {"quoteResponse", "status", "updatedAt"}
                         \cup (DOMAIN swap \cap {"swapDetails", "error"}) |->
                     IF k = "updatedAt" THEN ToISOString(swap.updatedAt)
                     ELSE swap[k]]]
  /\ UNCHANGED <<tasks, derivations, nearExec, client, env, now, nCalls>>

\* getSwapStatus
GetSwapStatus(quoteId) ==
  /\ lastCall' =
       IF quoteId \notin DOMAIN swaps
       THEN [op |-> "getSwapStatus", quoteId |-> quoteId, outcome |-> "rejected",
             error |-> <<"Quote not found: ", quoteId>>]
       ELSE LET swap == swaps[quoteId]
            IN [op |-> "getSwapStatus", quoteId |-> quoteId,
                outcome |-> "returned",
                response |->
                  [k \in {"quoteResponse", "status", "updatedAt"}
                         \cup (DOMAIN swap \cap {"swapDetails", "error"}) |->
                     IF k = "updatedAt" THEN ToISOString(swap.updatedAt)
                     ELSE swap[k]]]
  /\ UNCHANGED <<swaps, tasks, derivations, nearExec, client, env, now, nCalls>>

----------------------------------------------------------------------------
(* simulateExecution, one action per run between two suspensions *)

\* Number.prototype.toString: the shortest decimal text of x
NumberToString(x) == IF x.nan THEN [text |-> "NaN"] ELSE [text |-> Normalize(x)]

\* (parseFloat(amountYocto) / 1e24).toString()
AmountNear(amountYocto) ==
  LET x == ParseFloat(amountYocto)
  IN NumberToString(IF x.nan THEN NaN ELSE Dec(x.val, 24))

\* (quoteReq as any)._senderEncryptedPrivateKey || ''
SenderKey(quoteReq) ==
  IF FalsyStr(quoteReq, "_senderEncryptedPrivateKey") THEN ""
  ELSE quoteReq["_senderEncryptedPrivateKey"]

\* the recipient NEAR account, or undefined for a cross-chain destination
RecipientAccount(quoteReq) ==
  IF StartsWithNearColon(quoteReq.destinationAsset)
  THEN quoteReq.recipient ELSE Undefined

Truthy(str) == str # Undefined /\ str # ""

\* faulty variant: the status is not set to PROCESSING
StartExecutionKeepsStatus(quoteId) ==
  /\ quoteId \in DOMAIN tasks
  /\ tasks[quoteId].pc = "scheduled"
  /\ now >= tasks[quoteId].due
  /\ IF quoteId \notin DOMAIN swaps
     THEN /\ tasks' = [tasks EXCEPT ![quoteId].pc = "done"]
          /\ UNCHANGED swaps
     ELSE /\ swaps' = [swaps EXCEPT ![quoteId] = Assign(@, [updatedAt |-> now])]
          /\ tasks' = [tasks EXCEPT
                         ![quoteId].pc = "delay",
                         ![quoteId].due =
                            now + swaps[quoteId].quoteResponse.quote.timeEstimate]
  /\ UNCHANGED <<derivations, nearExec, client, env, now, nCalls, lastCall>>

\* faulty variant: the callback is armed again, as by setInterval
StartExecutionByInterval(quoteId) ==
  /\ quoteId \in DOMAIN tasks
  /\ tasks[quoteId].pc = "scheduled"
  /\ now >= tasks[quoteId].due
  /\ swaps[quoteId].status = "PENDING_DEPOSIT"
  /\ swaps' = [swaps EXCEPT ![quoteId] =
                 Assign(@, [status |-> "PROCESSING", updatedAt |-> now])]
  /\ tasks' = [tasks EXCEPT ![quoteId].due = now + ScheduleDelay]
  /\ UNCHANGED <<derivations, nearExec, client, env, now, nCalls, lastCall>>

\* faulty variant: the stored response is stamped again when execution starts
StartExecutionRestamps(quoteId) ==
  /\ quoteId \in DOMAIN tasks
  /\ tasks[quoteId].pc = "scheduled"
  /\ now >= tasks[quoteId].due
  /\ swaps' = [swaps EXCEPT ![quoteId] =
                 Assign(@, [status |-> "PROCESSING", updatedAt |-> now,
                            quoteResponse |->
                              Assign(swaps[quoteId].quoteResponse,
                                     [timestamp |-> ToISOString(now)])])]
  /\ tasks' = [tasks EXCEPT
                 ![quoteId].pc = "delay",
                 ![quoteId].due =
                    now + swaps[quoteId].quoteResponse.quote.timeEstimate]
  /\ UNCHANGED <<derivations, nearExec, client, env, now, nCalls, lastCall>>

\* faulty variant: the settlement delay is not awaited
StartExecutionNoDelay(quoteId) ==
  /\ quoteId \in DOMAIN tasks
  /\ tasks[quoteId].pc = "scheduled"
  /\ now >= tasks[quoteId].due
  /\ swaps' = [swaps EXCEPT ![quoteId] =
                 Assign(@, [status |-> "PROCESSING", updatedAt |-> now])]
  /\ tasks' = [tasks EXCEPT ![quoteId].pc = "delay", ![quoteId].due = now]
  /\ UNCHANGED <<derivations, nearExec, client, env, now, nCalls, lastCall>>

\* the setTimeout callback runs: from the lookup to the await of the delay
StartExecution(quoteId) ==
  /\ quoteId \in DOMAIN tasks
  /\ tasks[quoteId].pc = "scheduled"
  /\ now >= tasks[quoteId].due
  /\ IF quoteId \notin DOMAIN swaps
     THEN /\ tasks' = [tasks EXCEPT ![quoteId].pc = "done"]
          /\ UNCHANGED swaps
     ELSE /\ swaps' = [swaps EXCEPT ![quoteId] =
                         Assign(@, [status |-> "PROCESSING", updatedAt |-> now])]
          /\ tasks' = [tasks EXCEPT
                         ![quoteId].pc = "delay",
                         ![quoteId].due =
                            now + swaps[quoteId].quoteResponse.quote.timeEstimate]
  /\ UNCHANGED <<derivations, nearExec, client, env, now, nCalls, lastCall>>

\* faulty variant: the destination hash is listed with the origin hash and
\* the amount recorded as amountIn is the quoted output
SucceedListsBoth(quoteId, nearTxHash, transferResult, destTxHash, destTxResult) ==
  LET swap == swaps[quoteId]
  IN /\ swaps' = [swaps EXCEPT ![quoteId] =
                    Assign(@, [status |-> "SUCCESS", updatedAt |-> now,
                               swapDetails |->
                                 [nearTxHashes |-> <<nearTxHash, destTxHash>>,
                                  destinationTxHash |-> destTxHash,
                                  amountIn |-> swap.quoteResponse.quote.amountOut,
                                  amountOut |-> swap.quoteResponse.quote.amountOut,
                                  executionTime |->
                                    (now - swap.createdAt) \div 10]])]
     /\ tasks' = [tasks EXCEPT ![quoteId].pc = "done",
                               ![quoteId].nearTxHash = nearTxHash,
                               ![quoteId].transferResult = transferResult,
                               ![quoteId].destTxResult = destTxResult,
                               ![quoteId].destTxHash = destTxHash]

\* faulty variant: updatedAt is not refreshed on success and the execution
\* time is left in units of 100 ms
SucceedStaleTimestamp(quoteId, nearTxHash, transferResult, destTxHash, destTxResult) ==
  LET swap == swaps[quoteId]
      quoteReq == swap.quoteResponse.quoteRequest
  IN /\ swaps' = [swaps EXCEPT ![quoteId] =
                    Assign(@, [status |-> "SUCCESS",
                               swapDetails |->
                                 [nearTxHashes |-> <<nearTxHash>>,
                                  destinationTxHash |-> destTxHash,
                                  amountIn |-> quoteReq.amount,
                                  amountOut |-> swap.quoteResponse.quote.amountOut,
                                  executionTime |->
                                    swap.updatedAt - swap.createdAt]])]
     /\ tasks' = [tasks EXCEPT ![quoteId].pc = "done",
                               ![quoteId].nearTxHash = nearTxHash,
                               ![quoteId].transferResult = transferResult,
                               ![quoteId].destTxResult = destTxResult,
                               ![quoteId].destTxHash = destTxHash]

\* status SUCCESS with the swap details
Succeed(quoteId, nearTxHash, transferResult, destTxHash, destTxResult) ==
  LET swap == swaps[quoteId]
      quoteReq == swap.quoteResponse.quoteRequest
  IN /\ swaps' = [swaps EXCEPT ![quoteId] =
                    Assign(@, [status |-> "SUCCESS", updatedAt |-> now,
                               swapDetails |->
                                 [nearTxHashes |-> <<nearTxHash>>,
                                  destinationTxHash |-> destTxHash,
                                  amountIn |-> quoteReq.amount,
                                  amountOut |-> swap.quoteResponse.quote.amountOut,
                                  executionTime |->
                                    (now - swap.createdAt) \div 10]])]
     /\ tasks' = [tasks EXCEPT ![quoteId].pc = "done",
                               ![quoteId].nearTxHash = nearTxHash,
                               ![quoteId].transferResult = transferResult,
                               ![quoteId].destTxResult = destTxResult,
                               ![quoteId].destTxHash = destTxHash]

\* faulty variant: the failure marks every swap that is being processed
FailAll(quoteId, message) ==
  /\ swaps' = [q \in DOMAIN swaps |->
                 IF swaps[q].status = "PROCESSING"
                 THEN Assign(swaps[q], [status |-> "FAILED", updatedAt |-> now,
                                        error |-> message])
                 ELSE swaps[q]]
  /\ tasks' = [tasks EXCEPT ![quoteId].pc = "done",
                            ![quoteId].destTxResult = "failed"]

\* faulty variant: the failed swap is marked as refunded
FailRefunds(quoteId, message) ==
  /\ swaps' = [swaps EXCEPT ![quoteId] =
                 Assign(@, [status |-> "REFUNDED", updatedAt |-> now,
                            error |-> message])]
  /\ tasks' = [tasks EXCEPT ![quoteId].pc = "done",
                            ![quoteId].destTxResult = "failed"]

\* simulateDestinationTx failed and the outer catch ran: status FAILED with
\* the error's message
Fail(quoteId, message) ==
  /\ swaps' = [swaps EXCEPT ![quoteId] =
                 Assign(@, [status |-> "FAILED", updatedAt |-> now,
                            error |-> message])]
  /\ tasks' = [tasks EXCEPT ![quoteId].pc = "done",
                            ![quoteId].destTxResult = "failed"]

\* faulty variant: simulateDestinationTx is called whatever the destination
AfterTransferNoSkip(quoteId, nearTxHash, transferResult) ==
  LET quoteReq == swaps[quoteId].quoteResponse.quoteRequest
      destChain == Part(Split(quoteReq.destinationAsset), 1)
  IN /\ tasks' = [tasks EXCEPT
                    ![quoteId].pc = "destTx",
                    ![quoteId].nearTxHash = nearTxHash,
                    ![quoteId].transferResult = transferResult,
                    ![quoteId].destTxCalls =
                       Append(@, [chain |-> destChain,
                                  correlateTo |-> nearTxHash])]
     /\ UNCHANGED swaps

\* faulty variant: the origin part of swapDetails is written before the
\* destination chain execution
AfterTransferRecordsEarly(quoteId, nearTxHash, transferResult) ==
  LET quoteReq == swaps[quoteId].quoteResponse.quoteRequest
      destChain == Part(Split(quoteReq.destinationAsset), 1)
  IN IF destChain # "near"
     THEN /\ tasks' = [tasks EXCEPT
                         ![quoteId].pc = "destTx",
                         ![quoteId].nearTxHash = nearTxHash,
                         ![quoteId].transferResult = transferResult,
                         ![quoteId].destTxCalls =
                            Append(@, [chain |-> destChain,
                                       correlateTo |-> nearTxHash])]
          /\ swaps' = [swaps EXCEPT ![quoteId] =
                         Assign(@, [swapDetails |->
                                      [nearTxHashes |-> <<nearTxHash>>]])]
     ELSE Succeed(quoteId, nearTxHash, transferResult, Undefined, "none")

\* faulty variant: the destination call is correlated to the sender, not to
\* the origin transaction hash
AfterTransferUncorrelated(quoteId, nearTxHash, transferResult) ==
  LET quoteReq == swaps[quoteId].quoteResponse.quoteRequest
      destChain == Part(Split(quoteReq.destinationAsset), 1)
  IN IF destChain # "near"
     THEN /\ tasks' = [tasks EXCEPT
                         ![quoteId].pc = "destTx",
                         ![quoteId].nearTxHash = nearTxHash,
                         ![quoteId].transferResult = transferResult,
                         ![quoteId].destTxCalls =
                            Append(@, [chain |-> destChain,
                                       correlateTo |-> quoteReq.refundTo])]
          /\ UNCHANGED swaps
     ELSE Succeed(quoteId, nearTxHash, transferResult, Undefined, "none")

\* from the origin transaction hash on: the destination chain execution
AfterTransfer(quoteId, nearTxHash, transferResult) ==
  LET quoteReq == swaps[quoteId].quoteResponse.quoteRequest
      destChain == Part(Split(quoteReq.destinationAsset), 1)
  IN IF destChain # "near"
     THEN /\ tasks' = [tasks EXCEPT
                         ![quoteId].pc = "destTx",
                         ![quoteId].nearTxHash = nearTxHash,
                         ![quoteId].transferResult = transferResult,
                         ![quoteId].destTxCalls =
                            Append(@, [chain |-> destChain,
                                       correlateTo |-> nearTxHash])]
          /\ UNCHANGED swaps
     ELSE Succeed(quoteId, nearTxHash, transferResult, Undefined, "none")

\* the delay's timer fires: up to the await of the transfer, of the
\* destination transaction, or to the end
DelayElapsed(quoteId, hex) ==
  /\ quoteId \in DOMAIN tasks
  /\ tasks[quoteId].pc = "delay"
  /\ now >= tasks[quoteId].due
  /\ LET quoteReq == swaps[quoteId].quoteResponse.quoteRequest
         sender == quoteReq.refundTo
         recipientAccount == RecipientAccount(quoteReq)
         amountYocto == swaps[quoteId].quoteResponse.quote.amountIn
     IN IF nearExec /\ Truthy(recipientAccount)
        THEN /\ tasks' = [tasks EXCEPT
                            ![quoteId].pc = "transfer",
                            ![quoteId].transferCalls =
                               Append(@, [sender |-> sender,
                                          encryptedKey |-> SenderKey(quoteReq),
                                          recipient |-> recipientAccount,
                                          amountNear |->
                                            AmountNear(amountYocto)])]
             /\ UNCHANGED swaps
        ELSE AfterTransfer(quoteId, GenerateMockTxHash(hex), "none")
  /\ UNCHANGED <<derivations, nearExec, client, env, now, nCalls, lastCall>>

\* nearExec.sendNearTransfer resolves with txHash
TransferReturns(quoteId, txHash) ==
  /\ quoteId \in DOMAIN tasks
  /\ tasks[quoteId].pc = "transfer"
  /\ AfterTransfer(quoteId, txHash, "returned")
  /\ UNCHANGED <<derivations, nearExec, client, env, now, nCalls, lastCall>>

\* faulty variant: the transfer's error reaches the outer catch
TransferFailsPropagates(quoteId, hex) ==
  /\ quoteId \in DOMAIN tasks
  /\ tasks[quoteId].pc = "transfer"
  /\ swaps' = [swaps EXCEPT ![quoteId] =
                 Assign(@, [status |-> "FAILED", updatedAt |-> now,
                            error |-> "adapter failed"])]
  /\ tasks' = [tasks EXCEPT ![quoteId].pc = "done",
                            ![quoteId].transferResult = "failed"]
  /\ UNCHANGED <<derivations, nearExec, client, env, now, nCalls, lastCall>>

\* faulty variant: a failed transfer is attempted again
TransferFailsRetries(quoteId, hex) ==
  /\ quoteId \in DOMAIN tasks
  /\ tasks[quoteId].pc = "transfer"
  /\ tasks' = [tasks EXCEPT
                 ![quoteId].transferCalls = Append(@, @[Len(@)]),
                 ![quoteId].transferResult = "failed"]
  /\ UNCHANGED <<swaps, derivations, nearExec, client, env, now, nCalls, lastCall>>

\* nearExec.sendNearTransfer throws or rejects: the inner catch takes a mock hash
TransferFails(quoteId, hex) ==
  /\ quoteId \in DOMAIN tasks
  /\ tasks[quoteId].pc = "transfer"
  /\ AfterTransfer(quoteId, GenerateMockTxHash(hex), "failed")
  /\ UNCHANGED <<derivations, nearExec, client, env, now, nCalls, lastCall>>

\* crossChain.simulateDestinationTx resolves with destTxHash
DestTxReturns(quoteId, destTxHash) ==
  /\ quoteId \in DOMAIN tasks
  /\ tasks[quoteId].pc = "destTx"
  /\ Succeed(quoteId, tasks[quoteId].nearTxHash, tasks[quoteId].transferResult,
             destTxHash, "returned")
  /\ UNCHANGED <<derivations, nearExec, client, env, now, nCalls, lastCall>>

\* faulty variant: the rejection is not caught and the task just ends
DestTxFailsUncaught(quoteId, message) ==
  /\ quoteId \in DOMAIN tasks
  /\ tasks[quoteId].pc = "destTx"
  /\ tasks' = [tasks EXCEPT ![quoteId].pc = "done",
                            ![quoteId].destTxResult = "failed"]
  /\ UNCHANGED <<swaps, derivations, nearExec, client, env, now, nCalls, lastCall>>

\* faulty variant: a mock destination hash stands in for the failed call
DestTxFailsMocked(quoteId, message) ==
  /\ quoteId \in DOMAIN tasks
  /\ tasks[quoteId].pc = "destTx"
  /\ \E hex \in MockHexes :
       Succeed(quoteId, tasks[quoteId].nearTxHash,
               tasks[quoteId].transferResult, GenerateMockTxHash(hex), "failed")
  /\ UNCHANGED <<derivations, nearExec, client, env, now, nCalls, lastCall>>

\* crossChain.simulateDestinationTx throws or rejects: the outer catch
DestTxFails(quoteId, message) ==
  /\ quoteId \in DOMAIN tasks
  /\ tasks[quoteId].pc = "destTx"
  /\ Fail(quoteId, message)
  /\ UNCHANGED <<derivations, nearExec, client, env, now, nCalls, lastCall>>

(* Time: with timers pending and none due, the clock moves to the earliest *)

PendingTimers == {q \in DOMAIN tasks : tasks[q].pc \in {"scheduled", "delay"}}

Advance ==
  /\ PendingTimers # {}
  /\ \A q \in PendingTimers : tasks[q].due > now
  /\ \E q \in PendingTimers :
       /\ \A r \in PendingTimers : tasks[q].due <= tasks[r].due
       /\ now' = tasks[q].due
  /\ UNCHANGED <<swaps, tasks, derivations, nearExec, client, env, nCalls, lastCall>>

----------------------------------------------------------------------------
(* createOneClickClient and the production client *)

\* values of process.env.USE_PRODUCTION_SIMULATORS, Undefined when unset
EnvValues == {Undefined, "true", "false", "TRUE", "1", ""}

NotImplemented == "Production client not yet implemented"

\* faulty variant: any non-empty value turns the simulators off
GetConfigAnyValue(value) ==
  [useSimulators |-> value \in {Undefined, ""}]

\* getConfig, given the value of USE_PRODUCTION_SIMULATORS
GetConfig(value) == [useSimulators |-> value # "true"]

\* the client createOneClickClient returns: its class and whether it holds
\* a transfer executor
CreateOneClickClient(value) ==
  IF GetConfig(value).useSimulators
  THEN [class |-> "OneClickSimulator", nearExec |-> FALSE]
  ELSE [class |-> "ProductionOneClickClient", nearExec |-> FALSE]

\* the state after createOneClickClient(crossChain)
FactoryInit ==
  /\ env \in EnvValues
  /\ client = CreateOneClickClient(env).class
  /\ nearExec = CreateOneClickClient(env).nearExec
  /\ swaps = << >>
  /\ tasks = << >>
  /\ derivations = << >>
  /\ now = 0
  /\ nCalls = 0
  /\ lastCall = [op |-> "none"]

\* ProductionOneClickClient.requestQuote
ProductionRequestQuote(request) ==
  /\ client = "ProductionOneClickClient"
  /\ nCalls < MaxCalls
  /\ nCalls' = nCalls + 1
  /\ lastCall' = [op |-> "requestQuote", call |-> nCalls + 1,
                  request |-> request, outcome |-> "rejected",
                  error |-> NotImplemented]
  /\ UNCHANGED <<swaps, tasks, derivations, nearExec, client, env, now>>

\* ProductionOneClickClient.getSwapStatus
ProductionGetSwapStatus(quoteId) ==
  /\ client = "ProductionOneClickClient"
  /\ lastCall' = [op |-> "getSwapStatus", quoteId |-> quoteId,
                  outcome |-> "rejected", error |-> NotImplemented]
  /\ UNCHANGED <<swaps, tasks, derivations, nearExec, client, env, now, nCalls>>

(* The caller's own timer: a test awaits setTimeout(resolve, delay) after *)
(* requestQuote returned and polls when it fires.  Timers of the simulator *)
(* that are due by then fire first.                                         *)

\* the waits of the callers, 2000 ms and 3000 ms
PollDelays == {20, 30}

CallerWaitElapses(quoteId, delay) ==
  /\ quoteId \in DOMAIN swaps
  /\ LET target == swaps[quoteId].createdAt + delay
     IN /\ now < target
        /\ \A q \in PendingTimers : tasks[q].due > target
        /\ now' = target
  /\ UNCHANGED <<swaps, tasks, derivations, nearExec, client, env, nCalls, lastCall>>

----------------------------------------------------------------------------
(* Specifications *)

Next ==
  \/ \E request \in LifecycleRequests : RequestQuote(request)
  \/ \E call \in QuoteIds, address \in DerivedAddresses :
       DeriveAddressReturns(call, address)
  \/ \E call \in QuoteIds, message \in AdapterErrors :
       DeriveAddressFails(call, message)
  \/ \E quoteId \in QuoteIds : StartExecution(quoteId)
  \/ \E quoteId \in QuoteIds, hex \in MockHexes : DelayElapsed(quoteId, hex)
  \/ \E quoteId \in QuoteIds, txHash \in AdapterTxHashes :
       TransferReturns(quoteId, txHash)
  \/ \E quoteId \in QuoteIds, hex \in MockHexes : TransferFails(quoteId, hex)
  \/ \E quoteId \in QuoteIds, destTxHash \in DestTxHashes :
       DestTxReturns(quoteId, destTxHash)
  \/ \E quoteId \in QuoteIds, message \in AdapterErrors :
       DestTxFails(quoteId, message)
  \/ Advance

Spec == Init /\ [][Next]_vars

\* The facade alone, over every request shape: no timer fires
FacadeNext ==
  \/ \E request \in Requests : RequestQuote(request)
  \/ \E call \in QuoteIds, address \in DerivedAddresses :
       DeriveAddressReturns(call, address)
  \/ \E call \in QuoteIds, message \in AdapterErrors :
       DeriveAddressFails(call, message)
  \/ \E quoteId \in QuoteIds : GetSwapStatus(quoteId)

FacadeSpec == Init /\ [][FacadeNext]_vars

\* The facade over the requests that exercise the asset registry
RegistryNext ==
  \/ \E request \in RegistryRequests : RequestQuote(request)
  \/ \E call \in QuoteIds, address \in DerivedAddresses :
       DeriveAddressReturns(call, address)
  \/ \E call \in QuoteIds, message \in AdapterErrors :
       DeriveAddressFails(call, message)
  \/ \E quoteId \in QuoteIds : GetSwapStatus(quoteId)

RegistrySpec == Init /\ [][RegistryNext]_vars

\* The lifecycle with a caller that polls the status at any moment
PollNext ==
  \/ Next
  \/ \E quoteId \in QuoteIds : GetSwapStatus(quoteId)

PollSpec == Init /\ [][PollNext]_vars

\* Timers fire once due and every adapter call settles
Progress(quoteId) ==
  \/ StartExecution(quoteId)
  \/ \E hex \in MockHexes : DelayElapsed(quoteId, hex)
  \/ \E txHash \in AdapterTxHashes : TransferReturns(quoteId, txHash)
  \/ \E hex \in MockHexes : TransferFails(quoteId, hex)
  \/ \E destTxHash \in DestTxHashes : DestTxReturns(quoteId, destTxHash)
  \/ \E message \in AdapterErrors : DestTxFails(quoteId, message)

FairSpec ==
  /\ Spec
  /\ WF_vars(Advance)
  /\ \A quoteId \in QuoteIds : WF_vars(Progress(quoteId))

\* The polled lifecycle, with timers that fire and adapter calls that settle
FairPollSpec ==
  /\ PollSpec
  /\ WF_vars(Advance)
  /\ \A quoteId \in QuoteIds : WF_vars(Progress(quoteId))

\* The polled lifecycle with callers that wait before they poll
TimedNext ==
  \/ PollNext
  \/ \E quoteId \in QuoteIds, delay \in PollDelays :
       CallerWaitElapses(quoteId, delay)

TimedSpec == Init /\ [][TimedNext]_vars

\* The client the factory made, called and polled
FactoryNext ==
  \/ client = "OneClickSimulator" /\ PollNext
  \/ \E request \in LifecycleRequests : ProductionRequestQuote(request)
  \/ \E quoteId \in QuoteIds : ProductionGetSwapStatus(quoteId)

FactorySpec == FactoryInit /\ [][FactoryNext]_vars

----------------------------------------------------------------------------
(* Properties *)

RequestOf(quoteId) == swaps[quoteId].quoteResponse.quoteRequest

Terminal == {"SUCCESS", "FAILED"}

IsDryRequest(request) == Has(request, "dry") /\ request.dry = TRUE

LegalStatusStep(old, new) ==
  \/ new = old
  \/ old = "PENDING_DEPOSIT" /\ new = "PROCESSING"
  \/ old = "PROCESSING" /\ new \in Terminal

\* C1: a record starts in PENDING_DEPOSIT and every step leaves its status
\* alone or moves it PENDING_DEPOSIT -> PROCESSING or PROCESSING -> SUCCESS
\* or PROCESSING -> FAILED; nothing leaves SUCCESS or FAILED
C1_StatusLifecycle ==
  [][ /\ \A q \in DOMAIN swaps :
           /\ q \in DOMAIN swaps'
           /\ LegalStatusStep(swaps[q].status, swaps'[q].status)
      /\ \A q \in DOMAIN swaps' \ DOMAIN swaps :
           swaps'[q].status = "PENDING_DEPOSIT" ]_vars

C1_Witness ==
  \E q1, q2 \in DOMAIN swaps :
    swaps[q1].status = "SUCCESS" /\ swaps[q2].status = "FAILED"

C3_DryStaysPending ==
  \A q \in DOMAIN swaps :
    IsDryRequest(RequestOf(q)) =>
      /\ swaps[q].status = "PENDING_DEPOSIT"
      /\ ~Has(swaps[q], "swapDetails") /\ ~Has(swaps[q], "error")
      /\ q \notin DOMAIN tasks

C3_Witness ==
  \E q, r \in DOMAIN swaps :
    /\ IsDryRequest(RequestOf(q))
    /\ q < r
    /\ swaps[r].status = "SUCCESS"
    /\ now >= swaps[q].createdAt + ScheduleDelay + TimeEstimateSame

\* C4: a requestQuote call rejected at validation (rejected in the step that
\* makes the call) leaves the registry, the scheduled tasks and the suspended
\* calls as they were
C4_RejectionLeavesNoTrace ==
  [][ (/\ nCalls' = nCalls + 1
       /\ lastCall'.op = "requestQuote"
       /\ lastCall'.call = nCalls'
       /\ lastCall'.outcome = "rejected")
      => (swaps' = swaps /\ tasks' = tasks /\ derivations' = derivations) ]_vars

C4_Witness ==
  /\ lastCall.op = "requestQuote"
  /\ lastCall.outcome = "rejected"
  /\ lastCall.error \notin AdapterErrors
  /\ \E q \in DOMAIN swaps : q < lastCall.call /\ swaps[q].status = "PROCESSING"

\* C5: a request whose amount is "0", "-5", "abc" or "" is rejected, and no
\* record holds such a request
C5_InvalidAmountRejected ==
  /\ (lastCall.op = "requestQuote" /\ Has(lastCall.request, "amount")
        /\ lastCall.request.amount \in BadAmounts)
       => lastCall.outcome = "rejected"
  /\ \A q \in DOMAIN swaps : RequestOf(q).amount \notin BadAmounts

AssetsMissing(request) ==
  FalsySeq(request, "originAsset") \/ FalsySeq(request, "destinationAsset")

PartiesMissing(request) ==
  FalsyStr(request, "refundTo") \/ FalsyStr(request, "recipient")

\* C6: a request with originAsset, destinationAsset, refundTo or recipient
\* missing or empty is rejected, with the assets error whenever an asset is
\* missing; no record and no suspended call holds such a request
C6_MissingFieldsRejected ==
  /\ lastCall.op = "requestQuote" =>
       /\ (AssetsMissing(lastCall.request) \/ PartiesMissing(lastCall.request))
            => lastCall.outcome = "rejected"
       /\ AssetsMissing(lastCall.request)
            => lastCall.error = "Origin and destination assets required"
  /\ \A q \in DOMAIN swaps :
       ~AssetsMissing(RequestOf(q)) /\ ~PartiesMissing(RequestOf(q))
  /\ \A c \in DOMAIN derivations :
       /\ ~AssetsMissing(derivations[c].request)
       /\ ~PartiesMissing(derivations[c].request)

C6_Witness ==
  /\ lastCall.op = "requestQuote"
  /\ lastCall.outcome = "rejected"
  /\ AssetsMissing(lastCall.request)
  /\ FalsySeq(lastCall.request, "amount")
  /\ PartiesMissing(lastCall.request)

\* "chain:token": exactly two non-empty colon-separated parts
WellFormedAsset(asset) ==
  LET parts == Split(asset)
  IN Len(parts) = 2 /\ parts[1] # "" /\ parts[2] # ""

\* C7: a quote is returned only for, and a record is kept only of, a request
\* whose two assets each split into exactly two non-empty parts
C7_MalformedAssetRejected ==
  /\ (lastCall.op = "requestQuote" /\ lastCall.outcome = "returned")
       => /\ WellFormedAsset(lastCall.request.originAsset)
          /\ WellFormedAsset(lastCall.request.destinationAsset)
  /\ \A q \in DOMAIN swaps :
       /\ WellFormedAsset(RequestOf(q).originAsset)
       /\ WellFormedAsset(RequestOf(q).destinationAsset)

\* C8: deriveAddress is awaited only for an origin chain other than 'near';
\* in the step in which it fails, requestQuote rejects with its error and
\* the registry and the tasks stay as they were; a call whose derivation
\* failed never has a record or a task
C8_DerivationFailureFailsQuote ==
  [][ /\ \A c \in DOMAIN derivations' :
           /\ derivations'[c].chain # "near"
           /\ derivations'[c].result = "failed"
                => /\ RandomUUID(c) \notin DOMAIN swaps'
                   /\ RandomUUID(c) \notin DOMAIN tasks'
      /\ \A c \in DOMAIN derivations :
           (derivations[c].result = "pending"
              /\ derivations'[c].result = "failed")
           => /\ lastCall' = [op |-> "requestQuote", call |-> c,
                              request |-> derivations[c].request,
                              outcome |-> "rejected",
                              error |-> derivations'[c].error]
              /\ swaps' = swaps
              /\ tasks' = tasks ]_vars

C8_Witness ==
  \E c \in DOMAIN derivations :
    /\ derivations[c].result = "failed"
    /\ \E q \in DOMAIN swaps : q < c
    /\ lastCall.op = "requestQuote" /\ lastCall.call = c

C10_DestinationFailureFailsSwap ==
  \A q \in DOMAIN tasks :
    tasks[q].destTxResult = "failed" =>
      /\ DestChain(RequestOf(q)) # "near"
      /\ swaps[q].status = "FAILED"
      /\ Has(swaps[q], "error") /\ Truthy(swaps[q].error)
      /\ ~Has(swaps[q], "swapDetails")

C10_Witness ==
  \E q \in DOMAIN tasks :
    /\ Len(tasks[q].destTxCalls) = 1
    /\ tasks[q].destTxResult = "failed"
    /\ swaps[q].status = "FAILED"

\* C11: a SUCCESS record of a destination chain other than 'near' carries as
\* destinationTxHash the value its one simulateDestinationTx call, correlated
\* to the record's origin hash, resolved with; a SUCCESS record of the
\* destination chain 'near' carries none and made no such call
C11_DestinationHashIffForeign ==
  \A q \in DOMAIN swaps :
    swaps[q].status = "SUCCESS" =>
      LET details == swaps[q].swapDetails
      IN IF DestChain(RequestOf(q)) # "near"
         THEN /\ tasks[q].destTxResult = "returned"
              /\ tasks[q].destTxCalls =
                   << [chain |-> DestChain(RequestOf(q)),
                       correlateTo |-> details.nearTxHashes[1]] >>
              /\ details.destinationTxHash = tasks[q].destTxHash
              /\ details.destinationTxHash \in DestTxHashes
         ELSE /\ details.destinationTxHash = Undefined
              /\ tasks[q].destTxCalls = << >>
              /\ tasks[q].destTxResult = "none"

C11_Witness ==
  \E q, r \in DOMAIN swaps :
    /\ swaps[q].status = "SUCCESS" /\ swaps[r].status = "SUCCESS"
    /\ DestChain(RequestOf(q)) = "near"
    /\ DestChain(RequestOf(r)) = "ethereum"
    /\ swaps[r].swapDetails.destinationTxHash \in DestTxHashes

\* a step that is a getSwapStatus call for quoteId
StatusCall(quoteId) ==
  /\ lastCall' # lastCall
  /\ lastCall'.op = "getSwapStatus"
  /\ lastCall'.quoteId = quoteId

\* C12: a getSwapStatus call for a quoteId that is not a key of the registry
\* is rejected with the error "Quote not found: <quoteId>", and the call
\* leaves the registry and the tasks as they were
C12_UnknownQuoteNotFound ==
  [][ \A q \in QuoteIds :
        (StatusCall(q) /\ q \notin DOMAIN swaps)
          => /\ lastCall'.outcome = "rejected"
             /\ lastCall'.error = <<"Quote not found: ", q>>
             /\ swaps' = swaps
             /\ tasks' = tasks ]_vars

C12_Witness ==
  /\ lastCall.op = "getSwapStatus"
  /\ lastCall.outcome = "rejected"
  /\ lastCall.quoteId \notin DOMAIN swaps
  /\ swaps # << >>
  /\ nCalls = MaxCalls

\* C13: a getSwapStatus call for a known quoteId changes no record, no task
\* and no suspended call, and what it returns is the record's status,
\* quoteResponse, swapDetails, error and updatedAt as they stand, so that
\* calls between which the record did not change return the same
C13_StatusReadsOnly ==
  [][ \A q \in QuoteIds :
        (StatusCall(q) /\ q \in DOMAIN swaps)
          => /\ swaps' = swaps
             /\ tasks' = tasks
             /\ derivations' = derivations
             /\ lastCall'.outcome = "returned"
             /\ LET response == lastCall'.response
                    swap == swaps[q]
                IN /\ response.status = swap.status
                   /\ response.quoteResponse = swap.quoteResponse
                   /\ response.updatedAt = ToISOString(swap.updatedAt)
                   /\ Has(response, "swapDetails") <=> Has(swap, "swapDetails")
                   /\ Has(swap, "swapDetails")
                        => response.swapDetails = swap.swapDetails
                   /\ Has(response, "error") <=> Has(swap, "error")
                   /\ Has(swap, "error") => response.error = swap.error ]_vars

C13_Witness ==
  /\ lastCall.op = "getSwapStatus"
  /\ lastCall.outcome = "returned"
  /\ lastCall.response.status = "FAILED"
  /\ Has(lastCall.response, "error")
  /\ \E q \in DOMAIN swaps : swaps[q].status = "PROCESSING"
  /\ now > swaps[lastCall.quoteId].updatedAt

\* a step in which a requestQuote call returns its quote
QuoteReturned ==
  /\ lastCall' # lastCall
  /\ lastCall'.op = "requestQuote"
  /\ lastCall'.outcome = "returned"

\* C14: a step in which requestQuote returns adds one record, under the
\* returned quoteId, which was not a key before, holding the returned
\* response with status PENDING_DEPOSIT and neither swapDetails nor error;
\* every other step keeps the set of keys; no step removes a record or
\* changes the quoteResponse or createdAt of one
C14_RegistryOnlyGrows ==
  [][ /\ \A q \in DOMAIN swaps :
           /\ q \in DOMAIN swaps'
           /\ swaps'[q].quoteResponse = swaps[q].quoteResponse
           /\ swaps'[q].createdAt = swaps[q].createdAt
      /\ IF QuoteReturned
         THEN LET q == lastCall'.quoteResponse.quoteId
              IN /\ q \notin DOMAIN swaps
                 /\ DOMAIN swaps' = DOMAIN swaps \cup {q}
                 /\ swaps'[q].quoteResponse = lastCall'.quoteResponse
                 /\ swaps'[q].status = "PENDING_DEPOSIT"
                 /\ ~Has(swaps'[q], "swapDetails")
                 /\ ~Has(swaps'[q], "error")
         ELSE DOMAIN swaps' = DOMAIN swaps ]_vars

C14_Witness ==
  /\ lastCall.op = "requestQuote"
  /\ lastCall.outcome = "returned"
  /\ Cardinality(DOMAIN swaps) = 2
  /\ lastCall.quoteResponse.quoteId \in DOMAIN swaps
  /\ swaps[lastCall.quoteResponse.quoteId].status = "PENDING_DEPOSIT"
  /\ \E q \in DOMAIN swaps : swaps[q].status = "SUCCESS"

\* how far a task has come
PcRank(pc) ==
  CASE pc = "scheduled" -> 0 [] pc = "delay" -> 1 [] pc = "transfer" -> 2
    [] pc = "destTx" -> 3 [] pc = "done" -> 4

\* C15: a task is created only together with its record and starts as
\* scheduled; no step takes a task back, so none is scheduled again; a
\* record's PENDING_DEPOSIT -> PROCESSING step is the step in which its task
\* leaves scheduled, and no record returns to PENDING_DEPOSIT
C15_OneTaskPerQuote ==
  [][ /\ \A q \in DOMAIN tasks :
           /\ q \in DOMAIN tasks'
           /\ PcRank(tasks'[q].pc) >= PcRank(tasks[q].pc)
      /\ \A q \in DOMAIN tasks' \ DOMAIN tasks :
           /\ q \notin DOMAIN swaps
           /\ q \in DOMAIN swaps'
           /\ tasks'[q].pc = "scheduled"
      /\ \A q \in DOMAIN swaps \cap DOMAIN swaps' :
           /\ (swaps[q].status = "PENDING_DEPOSIT"
                 /\ swaps'[q].status = "PROCESSING")
                => /\ q \in DOMAIN tasks
                   /\ tasks[q].pc = "scheduled"
                   /\ tasks'[q].pc # "scheduled"
           /\ swaps'[q].status = "PENDING_DEPOSIT"
                => swaps[q].status = "PENDING_DEPOSIT" ]_vars

C15_Witness ==
  /\ lastCall.op = "getSwapStatus"
  /\ nCalls = MaxCalls
  /\ Cardinality(DOMAIN tasks) = 2
  /\ \A q \in DOMAIN tasks : tasks[q].pc = "done"

\* C16: a step of the task of swap a, failing or not, leaves the record of
\* every other swap as it was, and so does a step in which a requestQuote
\* call is rejected
C16_FailuresAreScoped ==
  [][ /\ \A a \in DOMAIN tasks \cap DOMAIN tasks' :
           tasks'[a] # tasks[a]
             => \A b \in DOMAIN swaps \ {a} :
                  b \in DOMAIN swaps' /\ swaps'[b] = swaps[b]
      /\ (/\ lastCall' # lastCall
          /\ lastCall'.op = "requestQuote"
          /\ lastCall'.outcome = "rejected")
           => swaps' = swaps ]_vars

C16_Witness ==
  \E a, b \in DOMAIN tasks :
    /\ a # b
    /\ swaps[a].status = "FAILED"
    /\ swaps[b].status = "PROCESSING"
    /\ tasks[b].pc = "destTx"
    /\ swaps[b].updatedAt < swaps[a].updatedAt

\* C17: the step in which requestQuote returns the quote of a non-dry
\* request leaves its record in PENDING_DEPOSIT and its task scheduled for a
\* later time; a getSwapStatus call made while that task has not started
\* returns PENDING_DEPOSIT with neither swapDetails nor error
C17_PendingWhenQuoteReturns ==
  [][ /\ (QuoteReturned /\ ~IsDryRequest(lastCall'.request))
           => LET q == lastCall'.quoteResponse.quoteId
              IN /\ q \in DOMAIN swaps' /\ q \in DOMAIN tasks'
                 /\ swaps'[q].status = "PENDING_DEPOSIT"
                 /\ tasks'[q].pc = "scheduled"
                 /\ tasks'[q].due > now'
      /\ \A q \in QuoteIds :
           (StatusCall(q) /\ q \in DOMAIN tasks /\ tasks[q].pc = "scheduled")
             => /\ lastCall'.outcome = "returned"
                /\ lastCall'.response.status = "PENDING_DEPOSIT"
                /\ ~Has(lastCall'.response, "swapDetails")
                /\ ~Has(lastCall'.response, "error") ]_vars

C17_Witness ==
  /\ lastCall.op = "getSwapStatus"
  /\ lastCall.outcome = "returned"
  /\ lastCall.quoteId \in DOMAIN tasks
  /\ tasks[lastCall.quoteId].pc = "scheduled"
  /\ now = swaps[lastCall.quoteId].createdAt
  /\ lastCall.response.status = "PENDING_DEPOSIT"
  /\ \E q \in DOMAIN swaps : swaps[q].status = "SUCCESS"

\* the quotes at hand: the one the last requestQuote call returned and the
\* ones of the records, each with its request
QuotesIssued ==
  (IF lastCall.op = "requestQuote" /\ lastCall.outcome = "returned"
   THEN {[request |-> lastCall.request, quote |-> lastCall.quoteResponse.quote]}
   ELSE {})
  \cup {[request |-> RequestOf(q), quote |-> swaps[q].quoteResponse.quote] :
          q \in DOMAIN swaps}

\* C18: the route of every quote issued has one step, of protocol
\* 'ref-finance', when the request's origin chain is its destination chain,
\* and otherwise two steps, of protocols 'rainbow-bridge' then 'uniswap-v3'
C18_RouteSteps ==
  \A i \in QuotesIssued :
    LET steps == i.quote.route.steps
    IN IF OriginChain(i.request) = DestChain(i.request)
       THEN /\ Len(steps) = 1
            /\ steps[1].protocol = "ref-finance"
       ELSE /\ Len(steps) = 2
            /\ steps[1].protocol = "rainbow-bridge"
            /\ steps[2].protocol = "uniswap-v3"

C18_Witness ==
  \E i, j \in QuotesIssued :
    /\ OriginChain(i.request) = "bitcoin" /\ DestChain(i.request) = "ethereum"
    /\ Len(i.quote.route.steps) = 2
    /\ OriginChain(j.request) = "ethereum" /\ DestChain(j.request) = "ethereum"
    /\ Len(j.quote.route.steps) = 1

\* C19: the timeEstimate of every quote issued is 7 when the request's origin
\* chain is its destination chain and 45 otherwise, over requests that differ
\* in tokens, amount and slippage tolerance
C19_TimeEstimate ==
  \A i \in QuotesIssued :
    i.quote.timeEstimate =
      IF OriginChain(i.request) = DestChain(i.request) THEN 7 ELSE 45

C19_Witness ==
  \E i, j \in QuotesIssued :
    /\ i.quote.timeEstimate = 7 /\ j.quote.timeEstimate = 45
    /\ i.request.amount # j.request.amount
    /\ Has(i.request, "slippageTolerance") /\ Has(j.request, "slippageTolerance")
    /\ i.request.slippageTolerance # j.request.slippageTolerance

\* the number a toFixed text reads as
FixedValue(t) ==
  IF Has(t, "text") THEN NaN
  ELSE Normalize(Dec(t.int * Pow10(t.fracLen) + t.frac, t.fracLen))

\* x <= y on decimals
DecLeq(x, y) ==
  LET e == IF x.e >= y.e THEN x.e ELSE y.e
  IN x.m * Pow10(e - x.e) <= y.m * Pow10(e - y.e)

\* the amount parses to a positive number
ValidAmount(request) ==
  /\ ~FalsySeq(request, "amount")
  /\ ~ParseFloat(request.amount).nan
  /\ ParseFloat(request.amount).val > 0

\* the slippage tolerance, when given, lies in [0, 1]
SlippageInRange(request) ==
  Has(request, "slippageTolerance") => request.slippageTolerance \in 0 .. 1000

\* C20: for every quote issued on a positive amount and a slippage tolerance
\* in [0, 1], the fee reads as 0.003 times the amount and amountOut reads as
\* at most 0.997 times the amount
C20_FeeAndOutputBound ==
  \A i \in QuotesIssued :
    (ValidAmount(i.request) /\ SlippageInRange(i.request)) =>
      LET amountIn == FromInt(ParseFloat(i.request.amount))
      IN /\ FixedValue(i.quote.fee) = Normalize(Mul(amountIn, Dec(3, 3)))
         /\ DecLeq(FixedValue(i.quote.amountOut), Mul(amountIn, Dec(997, 3)))

C20_Witness ==
  \E i, j \in QuotesIssued :
    /\ Has(i.request, "slippageTolerance") /\ i.request.slippageTolerance = 1000
    /\ FixedValue(i.quote.amountOut) = Dec(0, 0)
    /\ i.request.amount = Amount1000 /\ FixedValue(i.quote.fee) = Dec(3, 0)
    /\ j.request.amount = Amount5
    /\ FixedValue(j.quote.fee) = Dec(15, 3)
    /\ j.quote.fee.digits = 6

\* the input amount as a number
AmountInOf(request) == FromInt(ParseFloat(request.amount))

C22_SuppliedSlippageApplied ==
  \A i \in QuotesIssued :
    (/\ ValidAmount(i.request)
     /\ Has(i.request, "slippageTolerance")
     /\ i.request.slippageTolerance \in 0 .. 1000) =>
      FixedValue(i.quote.amountOut) =
        Normalize(Mul(Mul(AmountInOf(i.request), Dec(997, 3)),
                      Dec(1000 - i.request.slippageTolerance, 3)))

FailedTransferSwap(q) ==
  /\ nearExec
  /\ RequestOf(q).originAsset = NearNative
  /\ RequestOf(q).destinationAsset = WrapNear
  /\ tasks[q].transferResult = "failed"
  /\ tasks[q].pc = "done"

C26_ConcurrentSwapsSucceed ==
  \A q \in QuoteIds :
    (/\ q \in DOMAIN swaps
     /\ ~IsDryRequest(RequestOf(q))
     /\ OriginChain(RequestOf(q)) = DestChain(RequestOf(q)))
      ~> (q \in DOMAIN swaps /\ swaps[q].status = "SUCCESS")

C26_Witness ==
  /\ lastCall.op = "getSwapStatus"
  /\ Cardinality(DOMAIN swaps) = 2
  /\ \A q \in DOMAIN swaps :
       /\ RequestOf(q) = SameChain
       /\ swaps[q].status = "SUCCESS"
       /\ tasks[q].transferResult # "failed"
  /\ \E q, r \in DOMAIN swaps :
       q # r /\ swaps[r].createdAt < swaps[q].updatedAt
             /\ swaps[q].createdAt < swaps[r].updatedAt

C28_DetailsAndErrorMatchStatus ==
  \A q \in DOMAIN swaps :
    /\ Has(swaps[q], "swapDetails") <=> swaps[q].status = "SUCCESS"
    /\ Has(swaps[q], "error") <=> swaps[q].status = "FAILED"
    /\ swaps[q].status \in {"PENDING_DEPOSIT", "PROCESSING", "SUCCESS", "FAILED"}

C28_Witness ==
  \E q, r \in DOMAIN swaps :
    /\ swaps[q].status = "FAILED" /\ Has(swaps[q], "error")
    /\ ~Has(swaps[q], "swapDetails")
    /\ swaps[r].status = "SUCCESS" /\ Has(swaps[r], "swapDetails")
    /\ ~Has(swaps[r], "error")
    /\ DestChain(RequestOf(r)) = "ethereum"

\* C29: the swapDetails of a SUCCESS record list one origin transaction
\* hash, the one the sendNearTransfer call resolved with when that call was
\* made and resolved and a mock hash otherwise, and carry the request's
\* amount as amountIn and the quote's amountOut as amountOut
C29_SwapDetailsContent ==
  \A q \in DOMAIN swaps :
    swaps[q].status = "SUCCESS" =>
      LET details == swaps[q].swapDetails
      IN /\ Len(details.nearTxHashes) = 1
         /\ details.nearTxHashes[1] = tasks[q].nearTxHash
         /\ IF tasks[q].transferResult = "returned"
            THEN /\ Len(tasks[q].transferCalls) = 1
                 /\ details.nearTxHashes[1] \in AdapterTxHashes
            ELSE IsMockTxHash(details.nearTxHashes[1])
         /\ details.amountIn = RequestOf(q).amount
         /\ details.amountOut = swaps[q].quoteResponse.quote.amountOut

C29_Witness ==
  \E q, r \in DOMAIN swaps :
    /\ swaps[q].status = "SUCCESS" /\ swaps[r].status = "SUCCESS"
    /\ tasks[q].transferResult = "returned"
    /\ swaps[q].swapDetails.nearTxHashes = <<"near-tx-1">>
    /\ tasks[r].transferResult = "none"
    /\ IsMockTxHash(swaps[r].swapDetails.nearTxHashes[1])
    /\ swaps[r].swapDetails.amountIn = Amount1000

\* C30: a task has made at most one simulateDestinationTx call, none for the
\* destination chain 'near' and none before its transfer step is over; the
\* call names the destination chain and is correlated to the origin
\* transaction hash the transfer step ended with, which is the one listed in
\* swapDetails when the record is SUCCESS
C30_DestinationCallCorrelated ==
  \A q \in DOMAIN tasks :
    LET request == RequestOf(q)
        calls == tasks[q].destTxCalls
    IN /\ Len(calls) <= 1
       /\ DestChain(request) = "near" => Len(calls) = 0
       /\ tasks[q].pc \in {"scheduled", "delay", "transfer"} => Len(calls) = 0
       /\ Len(calls) = 1 =>
            /\ calls[1].chain = DestChain(request)
            /\ tasks[q].nearTxHash # Undefined
            /\ calls[1].correlateTo = tasks[q].nearTxHash
            /\ Len(tasks[q].transferCalls) = 1
                 => tasks[q].transferResult # "none"
            /\ swaps[q].status = "SUCCESS"
                 => swaps[q].swapDetails.nearTxHashes = <<calls[1].correlateTo>>

C30_Witness ==
  \E q, r \in DOMAIN tasks :
    /\ tasks[q].pc = "destTx"
    /\ Len(tasks[q].destTxCalls) = 1
    /\ IsMockTxHash(tasks[q].destTxCalls[1].correlateTo)
    /\ swaps[r].status = "SUCCESS"
    /\ Len(tasks[r].destTxCalls) = 1
    /\ tasks[r].destTxCalls[1].chain = "ethereum"
    /\ swaps[r].swapDetails.nearTxHashes[1] = tasks[r].destTxCalls[1].correlateTo

\* C31: every sendNearTransfer call a task made names the request's refundTo
\* as sender, the request's recipient as recipient, and as amount the text of
\* the input amount less the 0.3% fee, divided by 10^24
C31_TransferAmountNetOfFee ==
  \A q \in DOMAIN tasks :
    \A i \in 1 .. Len(tasks[q].transferCalls) :
      LET call == tasks[q].transferCalls[i]
          request == RequestOf(q)
      IN /\ call.sender = request.refundTo
         /\ call.recipient = request.recipient
         /\ call.amountNear =
              NumberToString(Mul(Mul(AmountInOf(request), Dec(997, 3)),
                                 Dec(1, 24)))

\* the last facade call that settled is a getSwapStatus call that returned
StatusReturned == lastCall.op = "getSwapStatus" /\ lastCall.outcome = "returned"

\* the statuses the orchestration assigns
ReachedStatuses == {"PENDING_DEPOSIT", "PROCESSING", "SUCCESS", "FAILED"}

\* C32: every record's status is one of PENDING_DEPOSIT, PROCESSING, SUCCESS
\* and FAILED, never INCOMPLETE_DEPOSIT or REFUNDED, and so is the status a
\* getSwapStatus call returned
C32_OnlyFourStatuses ==
  /\ \A q \in DOMAIN swaps :
       /\ swaps[q].status \in ReachedStatuses
       /\ swaps[q].status \notin {"INCOMPLETE_DEPOSIT", "REFUNDED"}
  /\ StatusReturned => lastCall.response.status \in ReachedStatuses

C32_Witness ==
  /\ StatusReturned
  /\ lastCall.response.status = "FAILED"
  /\ \E q \in DOMAIN swaps : swaps[q].status = "PROCESSING"

\* C33: no step changes the quoteResponse of a stored record; the step in
\* which requestQuote returns stores the returned response under its quoteId;
\* a getSwapStatus call that returns carries the stored quoteResponse, which
\* is then the one requestQuote returned for that quoteId
C33_QuoteResponseImmutable ==
  [][ /\ \A q \in DOMAIN swaps :
           /\ q \in DOMAIN swaps'
           /\ swaps'[q].quoteResponse = swaps[q].quoteResponse
      /\ QuoteReturned =>
           /\ lastCall'.quoteResponse.quoteId \in DOMAIN swaps'
           /\ swaps'[lastCall'.quoteResponse.quoteId].quoteResponse
                = lastCall'.quoteResponse
           /\ DOMAIN lastCall'.quoteResponse
                = {"quoteId", "timestamp", "quoteRequest", "quote"}
      /\ \A q \in QuoteIds :
           (StatusCall(q) /\ lastCall'.outcome = "returned") =>
             lastCall'.response.quoteResponse = swaps[q].quoteResponse ]_vars

C33_Witness ==
  /\ StatusReturned
  /\ lastCall.response.status = "SUCCESS"
  /\ LET swap == swaps[lastCall.quoteId]
     IN /\ lastCall.response.quoteResponse = swap.quoteResponse
        /\ swap.quoteResponse.timestamp = ToISOString(swap.createdAt)
        /\ swap.updatedAt > swap.createdAt
        /\ swap.quoteResponse.quoteRequest = CrossOut

\* time since the record was stored, which is when requestQuote returned
Age(q) == now - swaps[q].createdAt

\* the scheduling delay and the settlement delay, in units of 100 ms
SettleDelay(request) ==
  ScheduleDelay
    + (IF OriginChain(request) # DestChain(request) THEN 45 ELSE 7)

\* no timer of the task is due and yet to fire, no adapter call of the task
\* is outstanding and none has failed
AdaptersSucceeded(q) ==
  /\ tasks[q].pc \in {"scheduled", "delay"} => tasks[q].due > now
  /\ tasks[q].pc \notin {"transfer", "destTx"}
  /\ tasks[q].transferResult # "failed"
  /\ tasks[q].destTxResult # "failed"

NearToEthereum(q) ==
  OriginChain(RequestOf(q)) = "near" /\ DestChain(RequestOf(q)) = "ethereum"

NearToNear(q) ==
  OriginChain(RequestOf(q)) = "near" /\ DestChain(RequestOf(q)) = "near"

C36_Timestamps ==
  [][ /\ \A q \in DOMAIN swaps :
           /\ swaps'[q].createdAt = swaps[q].createdAt
           /\ swaps'[q].updatedAt >= swaps[q].updatedAt
           /\ swaps'[q].status # swaps[q].status
                => swaps'[q].updatedAt = now'
      /\ \A q \in DOMAIN swaps' \ DOMAIN swaps :
           swaps'[q].createdAt = now' /\ swaps'[q].updatedAt = now'
      /\ \A q \in DOMAIN swaps' :
           /\ swaps'[q].updatedAt >= swaps'[q].createdAt
           /\ swaps'[q].status = "SUCCESS" =>
                LET seconds == swaps'[q].swapDetails.executionTime
                    elapsed == swaps'[q].updatedAt - swaps'[q].createdAt
                IN /\ seconds \in Nat
                   /\ 10 * seconds <= elapsed
                   /\ elapsed < 10 * (seconds + 1) ]_vars

C36_Witness ==
  \E q, r \in DOMAIN swaps :
    /\ swaps[q].status = "SUCCESS"
    /\ swaps[q].updatedAt = swaps[q].createdAt + 55
    /\ swaps[q].swapDetails.executionTime = 5
    /\ swaps[r].status = "SUCCESS"
    /\ swaps[r].createdAt > 0
    /\ swaps[r].updatedAt > swaps[r].createdAt + 20
    /\ swaps[r].swapDetails.executionTime = 2

\* C37: the route of every quote issued starts at the origin symbol, ends at
\* the destination symbol, and each step starts where the previous one ended;
\* with different chains it goes through the origin symbol followed by
\* ' (bridged)', and with one chain it is a single step
C37_RouteIsChained ==
  \A i \in QuotesIssued :
    LET steps == i.quote.route.steps
        originSymbol == GetSymbol(OriginChain(i.request), OriginToken(i.request))
        destSymbol == GetSymbol(DestChain(i.request), DestToken(i.request))
    IN /\ Len(steps) >= 1
       /\ steps[1].from = originSymbol
       /\ steps[Len(steps)].to = destSymbol
       /\ \A k \in 1 .. Len(steps) - 1 : steps[k + 1].from = steps[k].to
       /\ IF OriginChain(i.request) # DestChain(i.request)
          THEN /\ steps[1].to = <<originSymbol, " (bridged)">>
               /\ steps[2].from = <<originSymbol, " (bridged)">>
               /\ steps[2].to = destSymbol
          ELSE steps = <<[from |-> originSymbol, to |-> destSymbol,
                          protocol |-> steps[1].protocol]>>

C37_Witness ==
  \E i, j \in QuotesIssued :
    /\ i.request.originAsset = NearNative
    /\ i.request.destinationAsset = EthUsdc
    /\ i.quote.route.steps[1].from = "NEAR"
    /\ i.quote.route.steps[1].to = <<"NEAR", " (bridged)">>
    /\ i.quote.route.steps[2].from = <<"NEAR", " (bridged)">>
    /\ i.quote.route.steps[2].to = "USDC"
    /\ j.request.originAsset = NearUsdc
    /\ j.request.destinationAsset = NearNative
    /\ Len(j.quote.route.steps) = 1
    /\ j.quote.route.steps[1].from = "USDC"
    /\ j.quote.route.steps[1].to = "NEAR"

\* the registered assets: chain, token, decimals, symbol
ListedAssets ==
  { <<"near", "native", 24, "NEAR">>, <<"near", "wrap.near", 24, "wNEAR">>,
    <<"near", "usdc.near", 6, "USDC">>, <<"ethereum", "native", 18, "ETH">>,
    <<"ethereum", "usdc.eth", 6, "USDC">>, <<"bitcoin", "native", 8, "BTC">>,
    <<"dogecoin", "native", 8, "DOGE">> }

Listed(chain, token) == \E a \in ListedAssets : a[1] = chain /\ a[2] = token

Listing(chain, token) ==
  CHOOSE a \in ListedAssets : a[1] = chain /\ a[2] = token

ExpectedDecimals(chain, token) ==
  IF Listed(chain, token) THEN Listing(chain, token)[3] ELSE 18

ExpectedSymbol(chain, token) ==
  IF Listed(chain, token) THEN Listing(chain, token)[4] ELSE token

ProbeChains ==
  {"near", "ethereum", "bitcoin", "dogecoin", "solana", "invalid-format", ""}

ProbeTokens ==
  {"native", "wrap.near", "usdc.near", "usdc.eth", "meme.near", "", Undefined}

\* getDecimals and getSymbol agree with the list on every probe pair
ProbesResolve ==
  \A chain \in ProbeChains, token \in ProbeTokens :
    /\ GetDecimals(chain, token) = ExpectedDecimals(chain, token)
    /\ GetSymbol(chain, token) = ExpectedSymbol(chain, token)

\* C38: for every chain and token, getDecimals and getSymbol give the listed
\* decimals and symbol of a listed pair, and 18 and the token itself
\* otherwise; every quote issued names the symbols so resolved and, when its
\* amount is a number, is formatted with the decimals so resolved; no
\* requestQuote call is rejected for any other reason than the validation or
\* a failed address derivation
C38_AssetResolutionTotal ==
  /\ ProbesResolve
  /\ \A i \in QuotesIssued :
       LET originChain == OriginChain(i.request)
           originToken == OriginToken(i.request)
           destChain == DestChain(i.request)
           destToken == DestToken(i.request)
       IN /\ ValidAmount(i.request) =>
               /\ i.quote.fee.digits = ExpectedDecimals(originChain, originToken)
               /\ i.quote.amountOut.digits
                    = ExpectedDecimals(destChain, destToken)
          /\ i.quote.amountOutFormatted[3] = ExpectedSymbol(destChain, destToken)
          /\ i.quote.route.steps[1].from
               = ExpectedSymbol(originChain, originToken)
  /\ (lastCall.op = "requestQuote" /\ lastCall.outcome = "rejected") =>
       \/ lastCall.error = ValidateQuoteRequest(lastCall.request)
       \/ /\ ValidateQuoteRequest(lastCall.request) = NoError
          /\ OriginChain(lastCall.request) # "near"
          /\ lastCall.error \in AdapterErrors

C38_Witness ==
  \E i, j \in QuotesIssued :
    /\ i.request.destinationAsset = UnlistedToken
    /\ i.quote.amountOut.digits = 18
    /\ i.quote.amountOutFormatted[3] = "meme.near"
    /\ j.request.originAsset = DogeNative
    /\ j.quote.fee.digits = 8
    /\ j.quote.route.steps[1].from = "DOGE"
    /\ j.quote.amountOutFormatted[3] = "BTC"

\* C39: the client is a ProductionOneClickClient exactly when
\* USE_PRODUCTION_SIMULATORS is 'true' and a OneClickSimulator otherwise; the
\* simulator has no transfer executor, so no task makes a transfer call,
\* while its address derivations go to the cross-chain adapter; with the
\* production client every call made was rejected with 'Production client
\* not yet implemented' and no record, task or derivation exists
C39_FactoryChoosesClient ==
  /\ client = (IF env = "true" THEN "ProductionOneClickClient"
               ELSE "OneClickSimulator")
  /\ client = "OneClickSimulator" =>
       /\ ~nearExec
       /\ \A q \in DOMAIN tasks :
            /\ tasks[q].transferCalls = << >>
            /\ tasks[q].transferResult = "none"
       /\ (lastCall.op # "none" /\ lastCall.outcome = "rejected")
            => lastCall.error # NotImplemented
  /\ client = "ProductionOneClickClient" =>
       /\ swaps = << >> /\ tasks = << >> /\ derivations = << >>
       /\ lastCall.op # "none" =>
            /\ lastCall.outcome = "rejected"
            /\ lastCall.error = NotImplemented

C39_Witness ==
  /\ env = "true"
  /\ client = "ProductionOneClickClient"
  /\ nCalls = MaxCalls
  /\ lastCall.op = "getSwapStatus"
  /\ lastCall.error = NotImplemented

\* C40: no step removes a record; after every step each task has its record,
\* so a task is created no earlier than its record; and a task that leaves
\* scheduled found its record and goes on to the delay with the record
\* PROCESSING, never straight to its end
C40_TaskFindsRecord ==
  [][ /\ DOMAIN swaps \subseteq DOMAIN swaps'
      /\ DOMAIN tasks \subseteq DOMAIN swaps
      /\ DOMAIN tasks' \subseteq DOMAIN swaps'
      /\ \A q \in DOMAIN tasks :
           (tasks[q].pc = "scheduled" /\ tasks'[q].pc # "scheduled") =>
             /\ q \in DOMAIN swaps
             /\ tasks'[q].pc = "delay"
             /\ swaps'[q].status = "PROCESSING" ]_vars

C40_Witness ==
  \E q, r \in DOMAIN tasks :
    /\ q < r
    /\ tasks[q].pc = "scheduled"
    /\ tasks[q].due <= now
    /\ q \in DOMAIN swaps
    /\ tasks[r].pc = "delay"
    /\ swaps[r].status = "PROCESSING"

====
